---- MODULE Spec2Model ----
(***************************************************************************)
(* A model of CULZ (src/src/ulz.hpp): the LZ77 encoder Compress with its   *)
(* hash-chain match finder, the decoder Decompress, the wide copy WildCopy *)
(* and the biased base-128 varint EncodeMod / DecodeMod.                   *)
(*                                                                         *)
(* Memory is modelled as byte regions.  A region is a record               *)
(*   [data |-> <<b0, b1, ...>>, rest |-> r]                                *)
(* whose byte at index i is data[i+1] when 0 <= i < Len(data) and r        *)
(* otherwise: r stands for whatever the memory around the region holds     *)
(* (bytes after an input, the initial contents of an output buffer).       *)
(* A store past Len(data) grows data, so Len(data) of an output region is  *)
(* the high-water mark of the stores made to it.                           *)
(*                                                                         *)
(* U32 values are records [hi, lo] of two 16-bit halves: TLC's integers    *)
(* are 32-bit signed, the program's unsigned arithmetic wraps at 2^32.     *)
(* Pointer differences compared with a U32 (op_end-op < run) are modelled  *)
(* as on an LP64 build: the signed 64-bit difference against the           *)
(* zero-extended U32.                                                      *)
(***************************************************************************)
EXTENDS Integers, Sequences, FiniteSets, TLC

VARIABLES cs, ds, vs, ts

vars == <<cs, ds, vs, ts>>

(***************************************************************************)
(* Bounds of the model.                                                    *)
(* WINDOW_BITS and HASH_BITS are 17 and 18 in the source (lines 21, 27);   *)
(* the model is parametric in them and is checked with small tables, so    *)
(* that the window wraps and hash buckets collide on inputs of a few bytes.*)
(***************************************************************************)
WINDOW_BITS == 3

HASH_BITS == 3

MaxLen == 9

(***************************************************************************)
(* Program constants.                                                      *)
(***************************************************************************)
EXCESS == 16

MIN_MATCH == 4

NIL == -1

WINDOW_SIZE == 2^WINDOW_BITS

WINDOW_MASK == WINDOW_SIZE - 1

HASH_SIZE == 2^HASH_BITS

Min(a, b) == IF a < b THEN a ELSE b

Max(a, b) == IF a > b THEN a ELSE b

(***************************************************************************)
(* Bit operations on naturals.                                             *)
(***************************************************************************)
RECURSIVE BitAnd(_, _)
BitAnd(a, b) ==
  IF a = 0 \/ b = 0 THEN 0
  ELSE (IF a % 2 = 1 /\ b % 2 = 1 THEN 1 ELSE 0) + 2 * BitAnd(a \div 2, b \div 2)

Shr(a, k) == a \div (2^k)

Shl(a, k) == a * (2^k)

(***************************************************************************)
(* Byte regions.                                                           *)
(***************************************************************************)
Region(bytes, r) == [data |-> bytes, rest |-> r]

Read(mem, i) ==
  IF i >= 0 /\ i < Len(mem.data) THEN mem.data[i + 1] ELSE mem.rest

Write(mem, i, v) ==
  IF i < Len(mem.data)
  THEN [mem EXCEPT !.data[i + 1] = v]
  ELSE [mem EXCEPT !.data =
          mem.data \o [k \in 1..(i - Len(mem.data)) |-> mem.rest] \o <<v>>]

RECURSIVE WriteBytes(_, _, _)
WriteBytes(mem, i, bytes) ==
  IF bytes = <<>> THEN mem
  ELSE WriteBytes(Write(mem, i, Head(bytes)), i + 1, Tail(bytes))

UnalignedLoad16(mem, i) == Read(mem, i) + 256 * Read(mem, i + 1)

UnalignedLoad32(mem, i) ==
  <<Read(mem, i), Read(mem, i + 1), Read(mem, i + 2), Read(mem, i + 3)>>

UnalignedStore16(mem, i, x) ==
  WriteBytes(mem, i, <<x % 256, (x \div 256) % 256>>)

\* *(U32*)d = load32(s): the four bytes are loaded, then stored.
UnalignedCopy32(dst, d, src, s) == WriteBytes(dst, d, UnalignedLoad32(src, s))

\* The 4-byte copies of WildCopy at offsets 4*w, w = from .. to-1.  With
\* `same` the source is the destination region itself (a match copy of the
\* decoder): each load sees the stores of the copies before it.
RECURSIVE CopyWords(_, _, _, _, _, _, _)
CopyWords(dst, d, src, s, from, to, same) ==
  IF from >= to THEN dst
  ELSE CopyWords(UnalignedCopy32(dst, d + 4 * from,
                                 IF same THEN dst ELSE src, s + 4 * from),
                 d, src, s, from + 1, to, same)

\* Number of 4-byte copies WildCopy(d, s, n) makes: two, then two more for
\* i = 8, 16, ... while i < n.
WildWords(n) == IF n <= 8 THEN 2 ELSE 2 * ((n + 7) \div 8)

\* WildCopy as a copy of a snapshot of the source (a memcpy): the loads do
\* not see the stores of the copies before them.
WildCopySnapshot(dst, d, src, s, n, same) ==
  CopyWords(dst, d, src, s, 0, WildWords(n), FALSE)

WildCopy(dst, d, src, s, n, same) ==
  CopyWords(dst, d, src, s, 0, WildWords(n), same)

(***************************************************************************)
(* U32 arithmetic on 16-bit halves.                                        *)
(***************************************************************************)
U32(n) == [hi |-> n \div 65536, lo |-> n % 65536]

\* (long)a < (unsigned)x, for a below 2^16 (or negative).
IntLtU32(a, x) == a < 0 \/ x.hi > 0 \/ a < x.lo

\* x + y, wrapped to 32 bits, with the carry out of bit 31.
U32AddC(x, y) ==
  LET l == x.lo + y.lo
      h == x.hi + y.hi + l \div 65536
  IN  [hi |-> h % 65536, lo |-> l % 65536, carry |-> h \div 65536]

U32Add(x, y) == [hi |-> U32AddC(x, y).hi, lo |-> U32AddC(x, y).lo]

\* c << i for a byte c and 0 <= i <= 28, wrapped to 32 bits; `lost` tells
\* that bits were shifted out.
U32ShlByte(c, i) ==
  IF i < 16
  THEN [hi |-> Shl(c, i) \div 65536, lo |-> Shl(c, i) % 65536, lost |-> FALSE]
  ELSE [hi |-> Shl(c, i - 16) % 65536, lo |-> 0,
        lost |-> Shl(c, i - 16) >= 65536]

(***************************************************************************)
(* EncodeMod (lines 87-96) and DecodeMod (lines 98-109).                   *)
(***************************************************************************)
\* EncodeMod's loop without the bias: emit 128 + (x & 127); x >>= 7.
EncodeModStepUnbiased(x) ==
  [byte |-> 128 + BitAnd(x.lo, 127),
   x    |-> [hi |-> Shr(x.hi, 7), lo |-> Shl(x.hi % 128, 9) + Shr(x.lo, 7)]]

\* One iteration of EncodeMod's loop: x -= 128; emit 128 + (x & 127); x >>= 7.
EncodeModStep(x) ==
  LET y == IF x.lo >= 128 THEN [hi |-> x.hi, lo |-> x.lo - 128]
                          ELSE [hi |-> x.hi - 1, lo |-> x.lo + 65536 - 128]
  IN  [byte |-> 128 + BitAnd(y.lo, 127),
       x    |-> [hi |-> Shr(y.hi, 7),
                 lo |-> Shl(y.hi % 128, 9) + Shr(y.lo, 7)]]

EncodeModMore(x) == x.hi > 0 \/ x.lo >= 128

\* The bytes EncodeMod(p, x) stores at p, p+1, ...
RECURSIVE EncodeMod(_)
EncodeMod(x) ==
  IF EncodeModMore(x)
  THEN <<EncodeModStep(x).byte>> \o EncodeMod(EncodeModStep(x).x)
  ELSE <<x.lo>>

\* One iteration of DecodeMod's loop on accumulator x with byte c at shift i.
DecodeModStep(x, c, i) ==
  LET t == U32ShlByte(c, i)
      a == U32AddC(x, t)
  IN  [x |-> [hi |-> a.hi, lo |-> a.lo],
       wrapped |-> t.lost \/ a.carry > 0,
       stop |-> c < 128]

\* DecodeMod(p) reading region mem from index ip: the value, the advanced
\* pointer and whether the accumulation wrapped.
RECURSIVE DecodeModFrom(_, _, _, _, _)
DecodeModFrom(mem, ip, x, i, wrapped) ==
  IF i > 28 THEN [x |-> x, ip |-> ip, wrapped |-> wrapped]
  ELSE LET st == DecodeModStep(x, Read(mem, ip), i)
       IN  IF st.stop
           THEN [x |-> st.x, ip |-> ip + 1, wrapped |-> wrapped \/ st.wrapped]
           ELSE DecodeModFrom(mem, ip + 1, st.x, i + 7, wrapped \/ st.wrapped)

DecodeMod(mem, ip) == DecodeModFrom(mem, ip, U32(0), 0, FALSE)

(***************************************************************************)
(* Hash32 (lines 82-85): (load32(p) * 0x9E3779B9) >> (32 - HASH_BITS).     *)
(* The product is taken modulo 2^32 by byte columns; w is the four bytes   *)
(* of the little-endian load, least significant first.                     *)
(***************************************************************************)
HashMul == <<185, 121, 55, 158>>   \* 0x9E3779B9, least significant byte first

MulLo32(w) ==
  LET k  == HashMul
      c0 == w[1] * k[1]
      c1 == w[1] * k[2] + w[2] * k[1] + c0 \div 256
      c2 == w[1] * k[3] + w[2] * k[2] + w[3] * k[1] + c1 \div 256
      c3 == w[1] * k[4] + w[2] * k[3] + w[3] * k[2] + w[4] * k[1] + c2 \div 256
  IN  [hi |-> (c3 % 256) * 256 + (c2 % 256),
       lo |-> (c1 % 256) * 256 + (c0 % 256)]

Hash32(w) ==
  LET m == MulLo32(w)
  IN  IF HASH_BITS <= 16
      THEN Shr(m.hi, 16 - HASH_BITS)
      ELSE Shl(m.hi, HASH_BITS - 16) + Shr(m.lo, 32 - HASH_BITS)

(***************************************************************************)
(* Compress (lines 113-265).                                               *)
(*                                                                         *)
(* cs is the state of one call on this instance:                           *)
(*   in, in_len, level   the arguments (in: the region holding the input,  *)
(*                       its rest the memory after it)                     *)
(*   Head, Tail          the instance's tables                             *)
(*   out, op             the output region and the output cursor           *)
(*   run, p              pending literals and the input cursor             *)
(*   best_len, dist      the match finder's result, at pc = "found"        *)
(*   pc                  "idle"  before the call                           *)
(*                       "loop"  at the test of the main loop (line 124)   *)
(*                       "found" after the chain walk (line 160)           *)
(*                       "done"  returned op - out                         *)
(***************************************************************************)
MaxChain(level) == IF level < 8 THEN Shl(1, level) ELSE WINDOW_SIZE

InAt(c, i) == Read(c.in, i)

HashAt(c, i) == Hash32(UnalignedLoad32(c.in, i))

\* while (len < max && in[s+len] == in[j+len]) ++len;
RECURSIVE Extend(_, _, _, _, _)
Extend(c, s, j, len, max) ==
  IF len < max /\ InAt(c, s + len) = InAt(c, j + len)
  THEN Extend(c, s, j, len + 1, max)
  ELSE len

\* The chain walk trusting the hash: the 4-byte prefixes are not compared.
RECURSIVE ChainWalkUnverified(_, _, _, _, _, _, _)
ChainWalkUnverified(c, s, limit, max_match, best_len, dist, chain_len) ==
  IF ~(s > limit) THEN [best_len |-> best_len, dist |-> dist]
  ELSE
    LET hit == InAt(c, s + best_len) = InAt(c, c.p + best_len)
        len == IF hit THEN Extend(c, s, c.p, MIN_MATCH, max_match) ELSE 0
        better == hit /\ len > best_len
        bl == IF better THEN len ELSE best_len
        d  == IF better THEN c.p - s ELSE dist
    IN  IF better /\ len = max_match THEN [best_len |-> bl, dist |-> d]
        ELSE IF chain_len - 1 = 0 THEN [best_len |-> bl, dist |-> d]
        ELSE ChainWalkUnverified(c, c.Tail[BitAnd(s, WINDOW_MASK)], limit,
                                 max_match, bl, d, chain_len - 1)

\* The chain walk of lines 136-159 from candidate s.
RECURSIVE ChainWalk(_, _, _, _, _, _, _)
ChainWalk(c, s, limit, max_match, best_len, dist, chain_len) ==
  IF ~(s > limit) THEN [best_len |-> best_len, dist |-> dist]
  ELSE
    LET hit == /\ InAt(c, s + best_len) = InAt(c, c.p + best_len)
               /\ UnalignedLoad32(c.in, s) = UnalignedLoad32(c.in, c.p)
        len == IF hit THEN Extend(c, s, c.p, MIN_MATCH, max_match) ELSE 0
        better == hit /\ len > best_len
        bl == IF better THEN len ELSE best_len
        d  == IF better THEN c.p - s ELSE dist
    IN  IF better /\ len = max_match THEN [best_len |-> bl, dist |-> d]
        ELSE IF chain_len - 1 = 0 THEN [best_len |-> bl, dist |-> d]
        ELSE ChainWalk(c, c.Tail[BitAnd(s, WINDOW_MASK)], limit, max_match,
                       bl, d, chain_len - 1)

\* Lines 126-159: best_len and dist after the chain walk at c.p.
FindMatch(c) ==
  LET max_match == c.in_len - c.p
  IN  IF max_match >= MIN_MATCH
      THEN ChainWalk(c, c.Head[HashAt(c, c.p)], Max(c.p - WINDOW_SIZE, NIL),
                     max_match, MIN_MATCH - 1, 0, MaxChain(c.level))
      ELSE [best_len |-> MIN_MATCH - 1, dist |-> 0]

\* The inner walk of the level-9 lookahead (lines 176-196) at j = p + i:
\* TRUE when a candidate matches target_len bytes (best_len is then set to 0).
RECURSIVE LookaheadWalk(_, _, _, _, _, _, _)
LookaheadWalk(c, j, s, limit, best_len, target_len, chain_len) ==
  IF ~(s > limit) THEN FALSE
  ELSE
    LET hit == /\ InAt(c, s + best_len) = InAt(c, j + best_len)
               /\ UnalignedLoad32(c.in, s) = UnalignedLoad32(c.in, j)
        len == IF hit THEN Extend(c, s, j, MIN_MATCH, target_len) ELSE 0
    IN  IF hit /\ len = target_len THEN TRUE
        ELSE IF chain_len - 1 = 0 THEN FALSE
        ELSE LookaheadWalk(c, j, c.Tail[BitAnd(s, WINDOW_MASK)], limit,
                           best_len, target_len, chain_len - 1)

LookaheadAt(c, best_len, i) ==
  LookaheadWalk(c, c.p + i, c.Head[HashAt(c, c.p + i)],
                Max(c.p + i - WINDOW_SIZE, NIL), best_len, best_len + i,
                MaxChain(c.level))

\* Lines 161-198: short-match suppression, then the level-9 lookahead.
SelectLen(c) ==
  LET max_match == c.in_len - c.p
      b1 == IF c.best_len = MIN_MATCH /\ c.run >= 7 + 128 THEN 0 ELSE c.best_len
  IN  IF max_match >= MIN_MATCH
      THEN IF c.level = 9 /\ b1 >= MIN_MATCH /\ b1 < max_match
           THEN IF LookaheadAt(c, b1, 1) \/ LookaheadAt(c, b1, 2) THEN 0 ELSE b1
           ELSE b1
      ELSE c.best_len

\* The insertion without its link: Head[h] = p++ only.
InsertHashUnlinked(c) ==
  [c EXCEPT !.Head[HashAt(c, c.p)] = c.p, !.p = c.p + 1]

\* Tail[p & WINDOW_MASK] = Head[h]; Head[h] = p++  for h = Hash32(&in[p]).
InsertHash(c) ==
  LET h == HashAt(c, c.p)
  IN  [c EXCEPT !.Tail[BitAnd(c.p, WINDOW_MASK)] = c.Head[h],
                !.Head[h] = c.p,
                !.p = c.p + 1]

RECURSIVE InsertHashes(_, _)
InsertHashes(c, n) == IF n = 0 THEN c ELSE InsertHashes(InsertHash(c), n - 1)

\* The tag and the run header of a token: lines 207-215 and 250-256.
RunHeader(run, tmp) ==
  IF run >= 7 THEN <<Shl(7, 5) + tmp>> \o EncodeMod(U32(run - 7))
  ELSE <<Shl(run, 5) + tmp>>

\* Lines 209-218 / 250-259: the header, then the literals by WildCopy.
FlushRun(c, tmp) ==
  LET hdr == RunHeader(c.run, tmp)
      o1  == WriteBytes(c.out, c.op, hdr)
      o2  == WildCopy(o1, c.op + Len(hdr), c.in, c.p - c.run, c.run, FALSE)
  IN  [c EXCEPT !.out = o2, !.op = c.op + Len(hdr) + c.run]

\* (dist >> 12) & 16, plus Min(len, 15).
MatchTag(dist, len) == BitAnd(Shr(dist, 12), 16) + Min(len, 15)

\* The bytes after the literals of a match token: lines 225-229.
MatchTrailer(dist, len) ==
  (IF len >= 15 THEN EncodeMod(U32(len - 15)) ELSE <<>>)
    \o <<dist % 256, (dist \div 256) % 256>>

\* Lines 202-237: emit the token of a match of best_len bytes at dist.
EmitMatch(c, best_len) ==
  LET len == best_len - MIN_MATCH
      tmp == MatchTag(c.dist, len)
      c1  == IF c.run # 0 THEN [FlushRun(c, tmp) EXCEPT !.run = 0]
             ELSE [c EXCEPT !.out = Write(c.out, c.op, tmp), !.op = c.op + 1]
      tr  == MatchTrailer(c.dist, len)
      c2  == [c1 EXCEPT !.out = WriteBytes(c1.out, c1.op, tr),
                        !.op = c1.op + Len(tr)]
  IN  InsertHashes(c2, best_len)

\* The literal branch without the insertion into the hash chain.
EmitLiteralUnindexed(c) == [c EXCEPT !.run = c.run + 1, !.p = c.p + 1]

\* Lines 238-245.
EmitLiteral(c) == InsertHash([c EXCEPT !.run = c.run + 1])

\* Lines 113-123: the call begins; Head is reset, Tail is left as it is.
CompressEnter(c) ==
  [c EXCEPT !.Head = [h \in 0..(HASH_SIZE - 1) |-> NIL],
            !.op = 0, !.run = 0, !.p = 0, !.pc = "loop"]

\* Lines 124-159, at pc = "loop" with p < in_len.
CompressSearch(c) ==
  [c EXCEPT !.best_len = FindMatch(c).best_len,
            !.dist = FindMatch(c).dist,
            !.pc = "found"]

\* Lines 161-246, at pc = "found".
CompressEmit(c) ==
  LET b == SelectLen(c)
      n == IF b >= MIN_MATCH THEN EmitMatch(c, b) ELSE EmitLiteral(c)
  IN  [n EXCEPT !.pc = "loop"]

\* Lines 248-264, at pc = "loop" with p >= in_len (run is not reset).
CompressExit(c) ==
  LET n == IF c.run # 0 THEN FlushRun(c, 0) ELSE c
  IN  [n EXCEPT !.pc = "done"]

CompressStep(c) ==
  CASE c.pc = "idle" -> CompressEnter(c)
    [] c.pc = "loop" /\ c.p < c.in_len -> CompressSearch(c)
    [] c.pc = "loop" /\ c.p >= c.in_len -> CompressExit(c)
    [] c.pc = "found" -> CompressEmit(c)
    [] OTHER -> c

\* The call run to its return.
RECURSIVE CompressRun(_)
CompressRun(c) == IF c.pc = "done" THEN c ELSE CompressRun(CompressStep(c))

\* The compressed bytes out[0 .. op) of a finished call.
Compressed(c) == SubSeq(c.out.data, 1, c.op)

\* A call at its entry: the instance's tables hold what they held before.
CompressCall(b, after, level, head0, tail0, fill) ==
  [in |-> Region(b, after), in_len |-> Len(b), level |-> level,
   Head |-> [h \in 0..(HASH_SIZE - 1) |-> head0],
   Tail |-> [i \in 0..(WINDOW_SIZE - 1) |-> tail0],
   out |-> Region(<<>>, fill), op |-> 0, run |-> 0, p |-> 0,
   best_len |-> 0, dist |-> 0, pc |-> "idle"]


(***************************************************************************)
(* Decompress (lines 267-317).                                             *)
(*                                                                         *)
(* ds is the state of one call:                                            *)
(*   in, in_len      the compressed region and its declared length         *)
(*   out, out_len    the output region and its declared capacity           *)
(*   ip, op          the cursors                                           *)
(*   loaded          one past the highest index of `in` loaded so far      *)
(*   ret             the value returned, at pc = "done"                    *)
(*   mode            which call this is ("full", "trunc", "fuzz", "none")  *)
(*   pc              "idle", "loop" (the test of line 274), "exit" (after  *)
(*                   the loop, line 316), "done"                           *)
(* Len(out.data) is one past the highest index of `out` stored so far.     *)
(***************************************************************************)
Fail(d) == [d EXCEPT !.pc = "done", !.ret = -1]

\* while (len--) *op++ = *cp++;
RECURSIVE ByteCopy(_, _, _, _)
ByteCopy(out, op, cp, len) ==
  IF len = 0 THEN out
  ELSE ByteCopy(Write(out, op, Read(out, cp)), op + 1, cp + 1, len - 1)

\* Lines 292-313: the match phase of a token with tag `tag`, cursors in d.
DecMatch(d, tag) ==
  LET nib  == BitAnd(tag, 15)
      dm   == DecodeMod(d.in, d.ip)
      len  == IF nib + MIN_MATCH = 15 + MIN_MATCH
              THEN U32Add(U32(nib + MIN_MATCH), dm.x)
              ELSE U32(nib + MIN_MATCH)
      ip1  == IF nib + MIN_MATCH = 15 + MIN_MATCH THEN dm.ip ELSE d.ip
      dist == Shl(BitAnd(tag, 16), 12) + UnalignedLoad16(d.in, ip1)
      cp   == d.op - dist
      d1   == [d EXCEPT !.ip = ip1, !.loaded = Max(d.loaded, ip1)]
      d2   == [d EXCEPT !.ip = ip1 + 2, !.loaded = Max(d.loaded, ip1 + 2)]
  IN  IF IntLtU32(d.out_len - d.op, len) THEN Fail(d1)
      ELSE IF d.op < dist THEN Fail(d2)
      ELSE IF dist >= 4
           THEN [d2 EXCEPT !.out = WildCopy(d.out, d.op, d.out, cp, len.lo, TRUE),
                           !.op = d.op + len.lo]
           ELSE [d2 EXCEPT !.out = ByteCopy(d.out, d.op, cp, len.lo),
                           !.op = d.op + len.lo]

\* Lines 276-290: the tag and the literal phase; then the match phase.
DecompressToken(d) ==
  LET tag  == Read(d.in, d.ip)
      ip0  == d.ip + 1
      dm   == DecodeMod(d.in, ip0)
      run  == IF Shr(tag, 5) = 7 THEN U32Add(U32(7), dm.x) ELSE U32(Shr(tag, 5))
      ip1  == IF Shr(tag, 5) = 7 THEN dm.ip ELSE ip0
      d0   == [d EXCEPT !.ip = ip0, !.loaded = Max(d.loaded, ip0)]
      d1   == [d EXCEPT !.ip = ip1, !.loaded = Max(d.loaded, ip1)]
      d2   == [d EXCEPT !.out = WildCopy(d.out, d.op, d.in, ip1, run.lo, FALSE),
                        !.op = d.op + run.lo,
                        !.ip = ip1 + run.lo,
                        !.loaded = Max(d.loaded, ip1 + 4 * WildWords(run.lo))]
  IN  IF tag >= 32
      THEN IF IntLtU32(d.out_len - d.op, run) \/ IntLtU32(d.in_len - ip1, run)
           THEN Fail(d1)
           ELSE IF d2.ip >= d.in_len THEN [d2 EXCEPT !.pc = "exit"]
           ELSE DecMatch(d2, tag)
      ELSE DecMatch(d0, tag)

\* The return without the test ip == ip_end.
DecompressReturnUnchecked(d) == [d EXCEPT !.pc = "done", !.ret = d.op]

\* Line 316.
DecompressReturn(d) ==
  [d EXCEPT !.pc = "done", !.ret = IF d.ip = d.in_len THEN d.op ELSE -1]

DecompressStep(d) ==
  CASE d.pc = "loop" /\ d.ip < d.in_len -> DecompressToken(d)
    [] d.pc = "loop" /\ d.ip >= d.in_len -> DecompressReturn(d)
    [] d.pc = "exit" -> DecompressReturn(d)
    [] OTHER -> d

RECURSIVE DecompressRun(_)
DecompressRun(d) == IF d.pc = "done" THEN d ELSE DecompressRun(DecompressStep(d))

\* Lines 267-273: a call on region `mem`, declared length in_len, into an
\* output buffer of declared capacity out_len whose bytes all hold `fill`.
DecompressCall(mem, in_len, out_len, fill, mode) ==
  [in |-> mem, in_len |-> in_len, out |-> Region(<<>>, fill),
   out_len |-> out_len, ip |-> 0, op |-> 0, loaded |-> 0, ret |-> 0,
   mode |-> mode, pc |-> "loop"]

NoCall == [pc |-> "idle"]


(***************************************************************************)
(* The inputs of the model.                                                *)
(***************************************************************************)
Bytes == {0, 1}

Levels == 1..9

\* What an instance's tables may hold before a call (left by earlier calls,
\* or never initialised).
Garbage == {0, 3}

Seqs(n) == UNION {[1..k -> Bytes] : k \in 0..n}

\* Every input of at most MaxLen bytes, and longer ones that carry the input
\* cursor past WINDOW_SIZE: a prefix followed by every suffix of at most
\* MaxSuffix bytes.
MaxSuffix == 5

Prefixes == {<<0, 0, 0, 0, 0, 0, 1, 0>>, <<0, 0, 0, 0, 1, 0, 0, 1>>}

Inputs == Seqs(MaxLen) \cup {x \o y : x \in Prefixes, y \in Seqs(MaxSuffix)}

V0 == [pc |-> "idle"]

T0 == [pc |-> "idle"]

(***************************************************************************)
(* Spec: one Compress call on a bounded input, then Decompress of its      *)
(* output, whole or with the final byte dropped.                           *)
(***************************************************************************)
Init ==
  /\ cs \in {CompressCall(b, after, level, g, g, after) :
               b \in Inputs, after \in Bytes, level \in Levels, g \in Garbage}
  /\ ds = NoCall
  /\ vs = V0
  /\ ts = T0

Enter ==
  /\ cs.pc = "idle"
  /\ cs' = CompressEnter(cs)
  /\ UNCHANGED <<ds, vs, ts>>

Search ==
  /\ cs.pc = "loop" /\ cs.p < cs.in_len
  /\ cs' = CompressSearch(cs)
  /\ UNCHANGED <<ds, vs, ts>>

Emit ==
  /\ cs.pc = "found"
  /\ cs' = CompressEmit(cs)
  /\ UNCHANGED <<ds, vs, ts>>

Exit ==
  /\ cs.pc = "loop" /\ cs.p >= cs.in_len
  /\ cs' = CompressExit(cs)
  /\ UNCHANGED <<ds, vs, ts>>

\* Decompress(c, |c|, out2, n) on the output buffer of the finished call.
DecompressWhole ==
  /\ cs.pc = "done" /\ ds.pc = "idle"
  /\ ds' = DecompressCall(cs.out, cs.op, cs.in_len, cs.out.rest, "full")
  /\ UNCHANGED <<cs, vs, ts>>

\* Decompress(c', |c|-1, out2, n) on a copy of c without its final byte; the
\* memory after the copy holds `junk`.
DecompressTruncated ==
  /\ cs.pc = "done" /\ ds.pc = "idle" /\ cs.op > 0
  /\ \E junk \in Bytes \cup {255} :
       ds' = DecompressCall(Region(SubSeq(cs.out.data, 1, cs.op - 1), junk),
                            cs.op - 1, cs.in_len, cs.out.rest, "trunc")
  /\ UNCHANGED <<cs, vs, ts>>

Token ==
  /\ ds.pc = "loop" /\ ds.ip < ds.in_len
  /\ ds' = DecompressToken(ds)
  /\ UNCHANGED <<cs, vs, ts>>

Return ==
  /\ \/ ds.pc = "loop" /\ ds.ip >= ds.in_len
     \/ ds.pc = "exit"
  /\ ds' = DecompressReturn(ds)
  /\ UNCHANGED <<cs, vs, ts>>

Next ==
  \/ Enter
  \/ Search
  \/ Emit
  \/ Exit
  \/ DecompressWhole
  \/ DecompressTruncated
  \/ Token
  \/ Return

Spec == Init /\ [][Next]_vars


(***************************************************************************)
(* Notions the properties are stated with.                                 *)
(***************************************************************************)
Range(f) == {f[i] : i \in DOMAIN f}

MaxOf(S) == CHOOSE x \in S : \A y \in S : y <= x

\* The first n bytes of a region.
Prefix(mem, n) == [i \in 1..n |-> Read(mem, i - 1)]

\* The positions a walk from s visits while s > limit, at most `fuel` of them.
RECURSIVE Visit(_, _, _, _)
Visit(c, s, limit, fuel) ==
  IF s > limit /\ fuel > 0
  THEN <<s>> \o Visit(c, c.Tail[BitAnd(s, WINDOW_MASK)], limit, fuel - 1)
  ELSE <<>>

\* Length of the common prefix of in[s..] and in[j..], capped at max.
Lcp(c, s, j, max) ==
  MaxOf({k \in 0..max : \A i \in 0..(k - 1) : InAt(c, s + i) = InAt(c, j + i)})

\* The least d such that b[i] = b[i+d] wherever both are bytes of b.
HasPeriod(b, d) == \A i \in 1..(Len(b) - d) : b[i] = b[i + d]

MinPeriod(b) == CHOOSE d \in 1..Len(b) : HasPeriod(b, d) /\ \A e \in 1..(d - 1) : ~HasPeriod(b, e)

\* The stream of one token: r literals (the first r bytes of b), then a match
\* of l bytes at distance d.
RunThenMatch(b, r, d, l) ==
  <<32 * r + Min(l - MIN_MATCH, 15)>> \o SubSeq(b, 1, r)
    \o (IF l - MIN_MATCH >= 15 THEN EncodeMod(U32(l - MIN_MATCH - 15)) ELSE <<>>)
    \o <<d, 0>>

(***************************************************************************)
(* C1.  Round trip: decompressing the whole output of Compress(b, n, out,  *)
(* L) with declared capacity n returns n and restores b byte for byte, for *)
(* every level, also when a match overlaps its own source (distance        *)
(* smaller than length).                                                   *)
(***************************************************************************)
RoundTrip ==
  (ds.pc = "done" /\ ds.mode = "full") =>
    /\ Len(cs.out.data) <= cs.in_len + EXCESS   \* Compress stayed in its buffer
    /\ ds.ret = cs.in_len
    /\ Prefix(ds.out, cs.in_len) = cs.in.data

\* A round trip whose last token was a match at a distance of 4..7 longer
\* than its distance: the wide copy overlapped its source.
RoundTripWitness ==
  /\ ds.pc = "done" /\ ds.mode = "full" /\ ds.ret = cs.in_len
  /\ cs.run = 0 /\ cs.dist \in 4..7 /\ cs.best_len > cs.dist

(***************************************************************************)
(* C5.  Truncation is detected: Decompress of the output of Compress on a  *)
(* non-empty input, without its final byte, returns a negative value,      *)
(* whatever a read of the missing byte yields.                             *)
(***************************************************************************)
TruncationDetected ==
  (ds.pc = "done" /\ ds.mode = "trunc") => ds.ret < 0

\* A truncated stream that ended inside a match's distance: the decoder
\* loaded the missing byte, passed the range check and copied the match.
TruncationWitness ==
  /\ ds.pc = "done" /\ ds.mode = "trunc" /\ ds.ret < 0
  /\ cs.run = 0 /\ ds.loaded > ds.in_len /\ ds.op = cs.in_len

(***************************************************************************)
(* C6.  Shape of the encoding of an input of least period d < 4.           *)
(***************************************************************************)
ShortPeriod(c) ==
  /\ c.in_len >= 1
  /\ MinPeriod(c.in.data) < MIN_MATCH

\* C6 as stated: one literal run of MIN_MATCH = 4 bytes, then one match of
\* distance d and length n - 4, and nothing else.
ShortPeriodShapeAsStated ==
  (cs.pc = "done" /\ ShortPeriod(cs) /\ cs.in_len >= 2 * MIN_MATCH) =>
    Compressed(cs) = RunThenMatch(cs.in.data, MIN_MATCH, MinPeriod(cs.in.data),
                                  cs.in_len - MIN_MATCH)

\* C6 as amended: for an input of length n >= d + 4 of least period d < 4,
\* Compress (any level) emits one literal run of d bytes, then one match of
\* distance d and length n - d, and nothing else.
ShortPeriodShape ==
  (cs.pc = "done" /\ ShortPeriod(cs)
     /\ cs.in_len >= MinPeriod(cs.in.data) + MIN_MATCH) =>
    Compressed(cs) = RunThenMatch(cs.in.data, MinPeriod(cs.in.data),
                                  MinPeriod(cs.in.data),
                                  cs.in_len - MinPeriod(cs.in.data))

\* A finished call on an input of least period 3, nine bytes long.
ShortPeriodWitness ==
  /\ cs.pc = "done" /\ ShortPeriod(cs)
  /\ MinPeriod(cs.in.data) = 3 /\ cs.in_len = 9 /\ cs.op = 6

(***************************************************************************)
(* C7.  The match finder is optimal within its budget.  After the chain    *)
(* walk at p (at least 4 bytes remaining), let the candidates be the first *)
(* max_chain positions of the chain of p's bucket inside the window.  If   *)
(* one of them shares at least 4 bytes with p, best_len is the longest     *)
(* common prefix (capped at in_len - p) over them and dist leads to the    *)
(* nearest candidate of that length; otherwise no match is held            *)
(* (best_len = MIN_MATCH - 1).  At levels 8 and 9 this is the longest      *)
(* match of at least 4 bytes over every position of the window.  A match   *)
(* held has 1 <= dist <= p and in[p-dist+k] = in[p+k] for all k < best_len.*)
(***************************************************************************)
Candidates(c) ==
  Range(Visit(c, c.Head[HashAt(c, c.p)], Max(c.p - WINDOW_SIZE, NIL),
              MaxChain(c.level)))

WindowOf(c) == Max(0, c.p - WINDOW_SIZE + 1)..(c.p - 1)

\* best_len and dist are the longest, nearest match over the positions S.
BestOver(c, S) ==
  LET max_match == c.in_len - c.p
      good == {s \in S : Lcp(c, s, c.p, max_match) >= MIN_MATCH}
      L    == MaxOf({Lcp(c, s, c.p, max_match) : s \in good})
  IN  IF good = {}
      THEN c.best_len = MIN_MATCH - 1
      ELSE /\ c.best_len = L
           /\ c.dist = c.p - MaxOf({s \in good : Lcp(c, s, c.p, max_match) = L})

MatchFinderOptimal ==
  (cs.pc = "found" /\ cs.in_len - cs.p >= MIN_MATCH) =>
    /\ Candidates(cs) \subseteq WindowOf(cs)
    /\ BestOver(cs, Candidates(cs))
    /\ cs.level >= 8 => BestOver(cs, WindowOf(cs))
    /\ cs.best_len >= MIN_MATCH =>
         /\ 1 <= cs.dist /\ cs.dist <= cs.p
         /\ \A k \in 0..(cs.best_len - 1) :
              InAt(cs, cs.p - cs.dist + k) = InAt(cs, cs.p + k)

\* A search whose budget ran out: it holds a match, a nearer candidate was
\* visited before the one it holds, and a window position beyond the budget
\* shares more bytes with p than the match held.
MatchFinderWitness ==
  /\ cs.pc = "found" /\ cs.in_len - cs.p >= MIN_MATCH
  /\ cs.best_len >= MIN_MATCH
  /\ \E s \in Candidates(cs) : s > cs.p - cs.dist
  /\ \E t \in WindowOf(cs) \ Candidates(cs) :
       Lcp(cs, t, cs.p, cs.in_len - cs.p) > cs.best_len

(***************************************************************************)
(* C9.  Hash-chain invariant.  At the start of every iteration of the main *)
(* loop at position p, for every q of the window the walk from             *)
(* Head[Hash32(in[q..q+3])] through Tail, continued while s > max(p-W,-1), *)
(* visits q; the positions visited decrease strictly, lie in the window    *)
(* and hash to q's bucket (no stale Tail entry, of an older position or of *)
(* an earlier call, is followed), so the walk ends by itself.              *)
(***************************************************************************)
StrictlyDecreasing(w) == \A i \in 1..(Len(w) - 1) : w[i] > w[i + 1]

ChainOf(c, q) ==
  Visit(c, c.Head[HashAt(c, q)], Max(c.p - WINDOW_SIZE, NIL), WINDOW_SIZE)

HashChainInvariant ==
  (cs.pc = "loop" /\ cs.p < cs.in_len) =>
    \A q \in WindowOf(cs) :
      /\ q \in Range(ChainOf(cs, q))
      /\ StrictlyDecreasing(ChainOf(cs, q))
      /\ Len(ChainOf(cs, q)) < WINDOW_SIZE
      /\ \A s \in Range(ChainOf(cs, q)) :
           s \in WindowOf(cs) /\ HashAt(cs, s) = HashAt(cs, q)

\* An iteration after the window has wrapped, with a chain of three positions
\* whose last Tail entry leads out of the window.
HashChainWitness ==
  /\ cs.pc = "loop" /\ cs.p < cs.in_len /\ cs.p > WINDOW_SIZE
  /\ \E q \in WindowOf(cs) :
       /\ Len(ChainOf(cs, q)) >= 3
       /\ LET last == ChainOf(cs, q)[Len(ChainOf(cs, q))]
          IN  cs.Tail[BitAnd(last, WINDOW_MASK)] \in 0..(cs.p - WINDOW_SIZE)

(***************************************************************************)
(* C4.  Compress is a pure function of the input bytes and the level: the  *)
(* returned length and the compressed bytes do not depend on what the      *)
(* tables held before the call nor on the memory after the input.          *)
(***************************************************************************)
CompressIsPure ==
  cs.pc = "done" =>
    \A after \in Bytes, g \in Garbage :
      LET r == CompressRun(CompressCall(cs.in.data, after, cs.level, g, g,
                                        cs.out.rest))
      IN  r.op = cs.op /\ Compressed(r) = Compressed(cs)


(***************************************************************************)
(* SpecDec: Decompress on arbitrary byte sequences.                        *)
(***************************************************************************)
\* Tags (0: a match of 4; 15: a long match; 32: one literal; 224: a long
\* run), distances, varint continuation bytes.
StreamBytes == {0, 1, 4, 15, 32, 128, 224, 255}

MaxStream == 4

MaxCapacity == 8

Streams == UNION {[1..n -> StreamBytes] : n \in 0..MaxStream}

\* What the memory around the buffers may hold.
Fills == {85, 170}

InitDec ==
  /\ ds \in {DecompressCall(Region(c, junk), Len(c), m, fill, "fuzz") :
               c \in Streams, junk \in {0, 255}, m \in 0..MaxCapacity,
               fill \in Fills}
  /\ cs = NoCall
  /\ vs = V0
  /\ ts = T0

NextDec ==
  \/ Token
  \/ Return

SpecDec == InitDec /\ [][NextDec]_vars

(***************************************************************************)
(* C2.  Decoder memory safety: no step of Decompress(c, |c|, out, m)       *)
(* stores to an output index >= m nor loads a compressed index >= |c|.     *)
(***************************************************************************)
DecoderMemorySafe ==
  ds.pc \in {"loop", "exit", "done"} =>
    /\ Len(ds.out.data) <= ds.out_len
    /\ ds.loaded <= ds.in_len

(***************************************************************************)
(* C10.  The decoder's result depends only on the stream: runs on output   *)
(* buffers of different initial contents return the same value k and, when *)
(* k >= 0, the same bytes out[0..k).                                       *)
(***************************************************************************)
DecoderOutputFromStreamOnly ==
  ds.pc = "done" =>
    \A fill \in Fills :
      LET r == DecompressRun(DecompressCall(ds.in, ds.in_len, ds.out_len,
                                            fill, ds.mode))
      IN  /\ r.ret = ds.ret
          /\ ds.ret >= 0 => Prefix(r.out, ds.ret) = Prefix(ds.out, ds.ret)

(***************************************************************************)
(* SpecVarint: EncodeMod of a 32-bit value, one byte per step, then        *)
(* DecodeMod of the bytes written, one byte per step.                      *)
(*   x0     the value encoded          x      what is left to encode       *)
(*   bytes  the bytes written          k, i   DecodeMod's index and shift  *)
(*   acc    DecodeMod's accumulator    wrapped  whether x += c << i wrapped*)
(***************************************************************************)
Halves ==
  {0, 1, 31, 32, 127, 128, 129, 255, 4127, 4128, 16383, 16384, 16511, 16512,
   32767, 32768, 65535}

InitVarint ==
  /\ vs \in {[pc |-> "encode", x0 |-> [hi |-> h, lo |-> l],
              x |-> [hi |-> h, lo |-> l], bytes |-> <<>>, k |-> 0, i |-> 0,
              acc |-> U32(0), wrapped |-> FALSE] : h \in Halves, l \in Halves}
  /\ cs = NoCall
  /\ ds = NoCall
  /\ ts = T0

\* An iteration of the loop of lines 89-94.
EncodeByte ==
  /\ vs.pc = "encode" /\ EncodeModMore(vs.x)
  /\ vs' = [vs EXCEPT !.bytes = Append(vs.bytes, EncodeModStep(vs.x).byte),
                      !.x = EncodeModStep(vs.x).x]
  /\ UNCHANGED <<cs, ds, ts>>

\* Line 95.
EncodeLast ==
  /\ vs.pc = "encode" /\ ~EncodeModMore(vs.x)
  /\ vs' = [vs EXCEPT !.bytes = Append(vs.bytes, vs.x.lo), !.pc = "decode"]
  /\ UNCHANGED <<cs, ds, ts>>

\* An iteration of the loop of lines 101-107.
DecodeByte ==
  /\ vs.pc = "decode"
  /\ LET st == DecodeModStep(vs.acc, Read(Region(vs.bytes, 255), vs.k), vs.i)
     IN  vs' = [vs EXCEPT !.acc = st.x,
                          !.wrapped = vs.wrapped \/ st.wrapped,
                          !.k = vs.k + 1,
                          !.i = vs.i + 7,
                          !.pc = IF st.stop \/ vs.i + 7 > 28
                                 THEN "done" ELSE "decode"]
  /\ UNCHANGED <<cs, ds, ts>>

NextVarint ==
  \/ EncodeByte
  \/ EncodeLast
  \/ DecodeByte

SpecVarint == InitVarint /\ [][NextVarint]_vars

(***************************************************************************)
(* C8.  Varint round trip: EncodeMod writes 1 to 5 bytes, all but the last *)
(* >= 128 and the last < 128, and DecodeMod consumes exactly those bytes   *)
(* and returns the value encoded, without 32-bit wrap-around.              *)
(***************************************************************************)
VarintRoundTrip ==
  vs.pc = "done" =>
    /\ Len(vs.bytes) \in 1..5
    /\ \A j \in 1..(Len(vs.bytes) - 1) : vs.bytes[j] >= 128
    /\ vs.bytes[Len(vs.bytes)] < 128
    /\ vs.k = Len(vs.bytes)
    /\ vs.acc = vs.x0
    /\ ~vs.wrapped
    /\ EncodeMod(vs.x0) = vs.bytes
    /\ DecodeMod(Region(vs.bytes, 255), 0) =
         [x |-> vs.x0, ip |-> Len(vs.bytes), wrapped |-> FALSE]

\* 2^32 - 1 went through five bytes and came back.
VarintWitness ==
  /\ vs.pc = "done" /\ vs.x0 = [hi |-> 65535, lo |-> 65535]
  /\ Len(vs.bytes) = 5 /\ vs.acc = vs.x0

(***************************************************************************)
(* SpecSize: the output cursor of Compress over the tokens it emits.       *)
(* Lines 202-246 advance op and p by amounts that depend only on run and   *)
(* best_len; ts follows them for any sequence of literal runs and match    *)
(* lengths the main loop can go through.                                   *)
(*   p, op, run   as in Compress        tokens   match tokens emitted      *)
(***************************************************************************)
RunLens == {6, 135, 16519}

MatchLens == {4, 5}

MaxTokens == 14

InitSize ==
  /\ ts = [pc |-> "loop", p |-> 0, op |-> 0, run |-> 0, tokens |-> 0]
  /\ cs = NoCall
  /\ ds = NoCall
  /\ vs = V0

\* k iterations in a row through the literal branch (lines 238-245).
Literals ==
  /\ ts.pc = "loop" /\ ts.run = 0
  /\ \E k \in RunLens : ts' = [ts EXCEPT !.run = k, !.p = ts.p + k]
  /\ UNCHANGED <<cs, ds, vs>>

\* An iteration through the match branch (lines 202-237) with a match of
\* best_len bytes; a match of MIN_MATCH bytes after a run of 7 + 128 or more
\* is discarded (lines 161-162).
Match ==
  /\ ts.pc = "loop" /\ ts.tokens < MaxTokens
  /\ \E best_len \in MatchLens :
       /\ ~(best_len = MIN_MATCH /\ ts.run >= 7 + 128)
       /\ ts' = [ts EXCEPT
            !.op = ts.op
                   + (IF ts.run # 0 THEN Len(RunHeader(ts.run, 0)) + ts.run ELSE 1)
                   + Len(MatchTrailer(1, best_len - MIN_MATCH)),
            !.p = ts.p + best_len,
            !.run = 0,
            !.tokens = ts.tokens + 1]
  /\ UNCHANGED <<cs, ds, vs>>

\* Lines 248-264.
Flush ==
  /\ ts.pc = "loop"
  /\ ts' = [ts EXCEPT
       !.op = ts.op + (IF ts.run # 0 THEN Len(RunHeader(ts.run, 0)) + ts.run ELSE 0),
       !.pc = "done"]
  /\ UNCHANGED <<cs, ds, vs>>

NextSize ==
  \/ Literals
  \/ Match
  \/ Flush

SpecSize == InitSize /\ [][NextSize]_vars

(***************************************************************************)
(* C3.  Size bound: the value returned by Compress on n bytes is at most   *)
(* n + EXCESS, whatever literal runs and match lengths the encoder goes    *)
(* through.                                                                *)
(***************************************************************************)
SizeBound == ts.pc = "done" => ts.op <= ts.p + EXCESS


====
